---- MODULE Spec2Model ----
(***************************************************************************)
(* The duel simulator of src/the-duel/src/main.rs: the agents' decision    *)
(* functions, Game::step_game, Game::check_end_condition and the           *)
(* tournament loop of pit_agents_against_each_other.                       *)
(*                                                                         *)
(* Option<Action> is "NONE" or the action itself; an action is "ATTACK" or *)
(* "FINCH" (the Counter move).  Probabilities are integers p standing for  *)
(* p / ProbScale.  The ChaCha12 generator is an external crate: it is      *)
(* modelled as a deterministic generator whose whole state is one number.  *)
(***************************************************************************)
EXTENDS Integers, Sequences, FiniteSets, TLC

\* ------------------------------------------------------------------ bounds
\* max_hp of the tournament (600 in the source), scaled down
MaxHp == 2
\* num_retrials (5000 in the source), scaled down
NumRetrials == 2
\* list_of_agents.len() (17 in the source), scaled down
NumAgents == 2
\* number of seeds the generator is started from
NumSeeds == 4
\* number of decide_action calls made on an agent taken alone
MaxCalls == 4

\* resolution of a probability: p stands for p / ProbScale
ProbScale == 10

VARIABLES
    list_of_agents,     \* the roster templates (Vec<Box<dyn GameAgent>>)
    seed,               \* the seed handed to seed_from_u64
    rng,                \* state of the shared generator (Rc<RefCell<ChaCha12Rng>>)
    win_matrix,         \* win_matrix[a][b]
    agent1,             \* agent1.0, index of the outer loop
    agent2,             \* agent2.0, index of the middle loop
    i,                  \* trial index of the inner loop
    game,               \* Game {player_one_agent, player_two_agent}
    state,              \* GameState
    player_one_action,  \* local of step_game: action committed by player one
    player_two_action,  \* local of step_game: action committed by player two
    condition,          \* local of the match loop: result of check_end_condition
    output,             \* characters written to pitting-results.csv
    pc,                 \* position in pit_agents_against_each_other
    turn,               \* number of step_game calls in the running match
    tie_count,          \* tie_count[a][b]: matches of pairing (a, b) that broke on TIE
    run,                \* number of the tournament run (1 or 2)
    first_matrix,       \* win matrix printed by the first run
    probe,              \* an agent taken alone
    probe_seen,         \* the opponent action handed to the last call on probe
    probe_before,       \* probe before its last call
    probe_action,       \* the action returned by the last call on probe
    probe_calls         \* number of calls made on probe

vars == <<list_of_agents, seed, rng, win_matrix, agent1, agent2, i, game, state,
          player_one_action, player_two_action, condition, output, pc, turn,
          tie_count, run, first_matrix, probe, probe_seen, probe_before,
          probe_action, probe_calls>>

probe_vars == <<probe, probe_seen, probe_before, probe_action, probe_calls>>

\* ------------------------------------------------------------------ types
Action == {"ATTACK", "FINCH"}

OptionAction == {"NONE"} \cup Action

WIN(id) == [tag |-> "WIN", id |-> id]

TIE == [tag |-> "TIE", id |-> 0]

CONTINUE == [tag |-> "CONTINUE", id |-> 0]

INTERRUPTED == [tag |-> "INTERRUPTED", id |-> 0]

PlayerState(max, cur) == [max_hit_points |-> max, current_hit_points |-> cur]

\* ------------------------------------------------------------------ agents
AttackAgent == [kind |-> "AttackAgent"]

MirrorAgent == [kind |-> "MirrorAgent"]

RandomAgent(p) == [kind |-> "RandomAgent", probability_of_attack |-> p]

OneStepDecisionProcessAgent(l, n, e, turns, attacks) ==
    [kind |-> "OneStepDecisionProcessAgent",
     cost_losing_hp |-> l, cost_not_losing_hp |-> n, cost_equivalent_exchange |-> e,
     num_turns |-> turns, num_attacks |-> attacks]

MarkovRandomAgent(toAttack, toFinch, strategy) ==
    [kind |-> "MarkovRandomAgent",
     change_to_attack_prob |-> toAttack, change_to_finch_prob |-> toFinch,
     current_strategy |-> strategy]

\* The agents a roster is drawn from: the kinds of the source's roster, with
\* the source's parameters (0.5, (0.5, 0.5), (-3, -1, -3)) and the extreme ones.
Templates ==
    {AttackAgent, MirrorAgent,
     RandomAgent(0), RandomAgent(5), RandomAgent(10),
     OneStepDecisionProcessAgent(-3, -1, -3, 0, 0),
     OneStepDecisionProcessAgent(-1, -3, -3, 0, 0),
     MarkovRandomAgent(5, 5, "ATTACK"),
     MarkovRandomAgent(0, 10, "ATTACK")}

\* ------------------------------------------------------------------ generator
\* a generator that is not seeded anew: it goes on from the state it was left in
seed_from_u64_stale(s) == rng

\* ChaCha12Rng::seed_from_u64: the generator's state is a function of the seed
seed_from_u64(s) == s % 16

\* one draw advances the generator (a full-period congruential step)
next_state(r) == (5 * r + 3) % 16

\* the value of the draw made from state r, scaled to 0 .. ProbScale - 1
sample(r) == (r * ProbScale) \div 16

\* random_bool that always draws and compares one too low
random_bool_below(r, p) ==
    [value |-> sample(next_state(r)) + 1 < p, rng |-> next_state(r)]

\* Rng::random_bool(p): Bernoulli(p); p = 1 answers true without a draw,
\* otherwise one value is drawn and compared with p
random_bool(r, p) ==
    IF p = ProbScale
    THEN [value |-> TRUE, rng |-> r]
    ELSE [value |-> sample(next_state(r)) < p, rng |-> next_state(r)]

\* ------------------------------------------------------------------ decide_action
\* Each decide_action yields the action, the agent after the call and the
\* generator after the call.
AttackAgent_decide_action(self, opposing_player_actions, r) ==
    [action |-> "ATTACK", agent |-> self, rng |-> r]

\* MirrorAgent::decide_action that counters when it has seen nothing
MirrorAgent_decide_action_counter_first(self, opposing_player_actions, r) ==
    IF opposing_player_actions # "NONE"
    THEN [action |-> opposing_player_actions, agent |-> self, rng |-> r]
    ELSE [action |-> "FINCH", agent |-> self, rng |-> r]

MirrorAgent_decide_action(self, opposing_player_actions, r) ==
    IF opposing_player_actions # "NONE"
    THEN [action |-> opposing_player_actions, agent |-> self, rng |-> r]
    ELSE [action |-> "ATTACK", agent |-> self, rng |-> r]

RandomAgent_decide_action(self, opposing_player_actions, r) ==
    LET decision == random_bool(r, self.probability_of_attack)
    IN  IF decision.value
        THEN [action |-> "ATTACK", agent |-> self, rng |-> decision.rng]
        ELSE [action |-> "FINCH", agent |-> self, rng |-> decision.rng]

\* count_attacks that counts every observed action
count_attacks_any(self, opposing_player_actions) ==
    IF opposing_player_actions # "NONE"
    THEN self.num_attacks + 1
    ELSE self.num_attacks

\* num_attacks after the observation of the opponent's action
count_attacks(self, opposing_player_actions) ==
    IF opposing_player_actions = "ATTACK"
    THEN self.num_attacks + 1
    ELSE self.num_attacks

\* attack_is_better with >= in place of >
attack_is_better_or_equal(self, attacks, turns) ==
    self.cost_losing_hp * (turns - attacks) + self.cost_equivalent_exchange * attacks
        >= self.cost_not_losing_hp * attacks
            + self.cost_equivalent_exchange * (turns - attacks)

\* attack_reward > finch_reward, with prob = attacks / turns and both sides
\* multiplied by turns (> 0).  For the costs of Templates the f64 evaluation of
\* lines 215-222 gives the same answer as this exact one.
attack_is_better(self, attacks, turns) ==
    self.cost_losing_hp * (turns - attacks) + self.cost_equivalent_exchange * attacks
        > self.cost_not_losing_hp * attacks
            + self.cost_equivalent_exchange * (turns - attacks)

OneStepDecisionProcessAgent_decide_action(self, opposing_player_actions, r) ==
    LET attacks == count_attacks(self, opposing_player_actions)
        turns == self.num_turns + 1
        after == [self EXCEPT !.num_attacks = attacks, !.num_turns = turns]
    IN  IF attack_is_better(self, attacks, turns)
        THEN [action |-> "ATTACK", agent |-> after, rng |-> r]
        ELSE [action |-> "FINCH", agent |-> after, rng |-> r]

\* MarkovRandomAgent::decide_action that returns the strategy held before the
\* update
MarkovRandomAgent_decide_action_stale(self, opposing_player_actions, r) ==
    LET decision == IF self.current_strategy = "ATTACK"
                    THEN random_bool(r, self.change_to_finch_prob)
                    ELSE random_bool(r, self.change_to_attack_prob)
        strategy == IF decision.value
                    THEN (IF self.current_strategy = "ATTACK" THEN "FINCH" ELSE "ATTACK")
                    ELSE self.current_strategy
    IN  [action |-> self.current_strategy,
         agent |-> [self EXCEPT !.current_strategy = strategy],
         rng |-> decision.rng]

MarkovRandomAgent_decide_action(self, opposing_player_actions, r) ==
    LET decision == IF self.current_strategy = "ATTACK"
                    THEN random_bool(r, self.change_to_finch_prob)
                    ELSE random_bool(r, self.change_to_attack_prob)
        strategy == IF decision.value
                    THEN (IF self.current_strategy = "ATTACK" THEN "FINCH" ELSE "ATTACK")
                    ELSE self.current_strategy
    IN  [action |-> strategy,
         agent |-> [self EXCEPT !.current_strategy = strategy],
         rng |-> decision.rng]

\* dynamic dispatch of GameAgent::decide_action
decide_action(self, opposing_player_actions, r) ==
    CASE self.kind = "AttackAgent" ->
            AttackAgent_decide_action(self, opposing_player_actions, r)
      [] self.kind = "MirrorAgent" ->
            MirrorAgent_decide_action(self, opposing_player_actions, r)
      [] self.kind = "RandomAgent" ->
            RandomAgent_decide_action(self, opposing_player_actions, r)
      [] self.kind = "OneStepDecisionProcessAgent" ->
            OneStepDecisionProcessAgent_decide_action(self, opposing_player_actions, r)
      [] self.kind = "MarkovRandomAgent" ->
            MarkovRandomAgent_decide_action(self, opposing_player_actions, r)

\* GameAgent::copy_self_to_anom: a new box holding the fields of self
copy_self_to_anom(self) ==
    CASE self.kind = "AttackAgent" -> AttackAgent
      [] self.kind = "MirrorAgent" -> MirrorAgent
      [] self.kind = "RandomAgent" -> RandomAgent(self.probability_of_attack)
      [] self.kind = "OneStepDecisionProcessAgent" ->
            OneStepDecisionProcessAgent(self.cost_losing_hp, self.cost_not_losing_hp,
                                        self.cost_equivalent_exchange,
                                        self.num_turns, self.num_attacks)
      [] self.kind = "MarkovRandomAgent" ->
            MarkovRandomAgent(self.change_to_attack_prob, self.change_to_finch_prob,
                              self.current_strategy)

\* ------------------------------------------------------------------ Game
\* apply_actions under the ruleset in which two counters do no damage
apply_actions_no_chip(st, one, two) ==
    LET hp1 == st.player_one_state.current_hit_points
        hp2 == st.player_two_state.current_hit_points
    IN  CASE one = "ATTACK" /\ two = "ATTACK" ->
                [st EXCEPT !.player_one_state.current_hit_points = hp1 - 1,
                           !.player_two_state.current_hit_points = hp2 - 1]
          [] one = "ATTACK" /\ two = "FINCH" ->
                [st EXCEPT !.player_one_state.current_hit_points = hp1 - 1]
          [] one = "FINCH" /\ two = "ATTACK" ->
                [st EXCEPT !.player_two_state.current_hit_points = hp2 - 1]
          [] one = "FINCH" /\ two = "FINCH" -> st

\* apply_actions with the damage of a countered attack put on the countering side
apply_actions_swapped(st, one, two) ==
    LET hp1 == st.player_one_state.current_hit_points
        hp2 == st.player_two_state.current_hit_points
    IN  CASE one = "ATTACK" /\ two = "ATTACK" ->
                [st EXCEPT !.player_one_state.current_hit_points = hp1 - 1,
                           !.player_two_state.current_hit_points = hp2 - 1]
          [] one = "ATTACK" /\ two = "FINCH" ->
                [st EXCEPT !.player_two_state.current_hit_points = hp2 - 1]
          [] one = "FINCH" /\ two = "ATTACK" ->
                [st EXCEPT !.player_one_state.current_hit_points = hp1 - 1]
          [] one = "FINCH" /\ two = "FINCH" ->
                [st EXCEPT !.player_one_state.current_hit_points = hp1 - 1,
                           !.player_two_state.current_hit_points = hp2 - 1]

\* apply_actions in which, of two attackers, only player two is hit
apply_actions_first_strike(st, one, two) ==
    LET hp1 == st.player_one_state.current_hit_points
        hp2 == st.player_two_state.current_hit_points
    IN  CASE one = "ATTACK" /\ two = "ATTACK" ->
                [st EXCEPT !.player_two_state.current_hit_points = hp2 - 1]
          [] one = "ATTACK" /\ two = "FINCH" ->
                [st EXCEPT !.player_one_state.current_hit_points = hp1 - 1]
          [] one = "FINCH" /\ two = "ATTACK" ->
                [st EXCEPT !.player_two_state.current_hit_points = hp2 - 1]
          [] one = "FINCH" /\ two = "FINCH" ->
                [st EXCEPT !.player_one_state.current_hit_points = hp1 - 1,
                           !.player_two_state.current_hit_points = hp2 - 1]

\* apply_actions in which a successful counter gives the countering side 1 HP
apply_actions_heal(st, one, two) ==
    LET hp1 == st.player_one_state.current_hit_points
        hp2 == st.player_two_state.current_hit_points
    IN  CASE one = "ATTACK" /\ two = "ATTACK" ->
                [st EXCEPT !.player_one_state.current_hit_points = hp1 - 1,
                           !.player_two_state.current_hit_points = hp2 - 1]
          [] one = "ATTACK" /\ two = "FINCH" ->
                [st EXCEPT !.player_one_state.current_hit_points = hp1 - 1,
                           !.player_two_state.current_hit_points = hp2 + 1]
          [] one = "FINCH" /\ two = "ATTACK" ->
                [st EXCEPT !.player_one_state.current_hit_points = hp1 + 1,
                           !.player_two_state.current_hit_points = hp2 - 1]
          [] one = "FINCH" /\ two = "FINCH" ->
                [st EXCEPT !.player_one_state.current_hit_points = hp1 - 1,
                           !.player_two_state.current_hit_points = hp2 - 1]

\* apply_actions in which a countered attack costs the attacker 2 HP
apply_actions_heavy_counter(st, one, two) ==
    LET hp1 == st.player_one_state.current_hit_points
        hp2 == st.player_two_state.current_hit_points
    IN  CASE one = "ATTACK" /\ two = "ATTACK" ->
                [st EXCEPT !.player_one_state.current_hit_points = hp1 - 1,
                           !.player_two_state.current_hit_points = hp2 - 1]
          [] one = "ATTACK" /\ two = "FINCH" ->
                [st EXCEPT !.player_one_state.current_hit_points = hp1 - 2]
          [] one = "FINCH" /\ two = "ATTACK" ->
                [st EXCEPT !.player_two_state.current_hit_points = hp2 - 2]
          [] one = "FINCH" /\ two = "FINCH" ->
                [st EXCEPT !.player_one_state.current_hit_points = hp1 - 1,
                           !.player_two_state.current_hit_points = hp2 - 1]

\* HP of both players after the match on (player_one_action, player_two_action)
apply_actions(st, one, two) ==
    LET hp1 == st.player_one_state.current_hit_points
        hp2 == st.player_two_state.current_hit_points
    IN  CASE one = "ATTACK" /\ two = "ATTACK" ->
                [st EXCEPT !.player_one_state.current_hit_points = hp1 - 1,
                           !.player_two_state.current_hit_points = hp2 - 1]
          [] one = "ATTACK" /\ two = "FINCH" ->
                [st EXCEPT !.player_one_state.current_hit_points = hp1 - 1]
          [] one = "FINCH" /\ two = "ATTACK" ->
                [st EXCEPT !.player_two_state.current_hit_points = hp2 - 1]
          [] one = "FINCH" /\ two = "FINCH" ->
                [st EXCEPT !.player_one_state.current_hit_points = hp1 - 1,
                           !.player_two_state.current_hit_points = hp2 - 1]

\* step_game in which player two decides after seeing player one's action of
\* the same turn
step_game_in_turn(g, st, r) ==
    LET one == decide_action(g.player_one_agent, st.player_two_action, r)
        two == decide_action(g.player_two_agent, one.action, one.rng)
    IN  [game |-> [player_one_agent |-> one.agent, player_two_agent |-> two.agent],
         state |-> apply_actions(st, one.action, two.action),
         rng |-> two.rng,
         player_one_action |-> one.action,
         player_two_action |-> two.action]

\* Game::step_game: player one decides, then player two, then the HP change.
\* The two actions are locals; the state's action fields are not assigned.
step_game(g, st, r) ==
    LET one == decide_action(g.player_one_agent, st.player_two_action, r)
        two == decide_action(g.player_two_agent, st.player_one_action, one.rng)
    IN  [game |-> [player_one_agent |-> one.agent, player_two_agent |-> two.agent],
         state |-> apply_actions(st, one.action, two.action),
         rng |-> two.rng,
         player_one_action |-> one.action,
         player_two_action |-> two.action]

\* check_end_condition with the single losses tested before the tie
check_end_condition_loss_first(st) ==
    IF st.player_one_state.current_hit_points <= 0
    THEN WIN(2)
    ELSE IF st.player_two_state.current_hit_points <= 0
    THEN WIN(1)
    ELSE IF st.player_one_state.current_hit_points <= 0
        /\ st.player_two_state.current_hit_points <= 0
    THEN TIE
    ELSE CONTINUE

\* Game::check_end_condition
check_end_condition(st) ==
    IF st.player_one_state.current_hit_points <= 0
        /\ st.player_two_state.current_hit_points <= 0
    THEN TIE
    ELSE IF st.player_one_state.current_hit_points <= 0
    THEN WIN(2)
    ELSE IF st.player_two_state.current_hit_points <= 0
    THEN WIN(1)
    ELSE CONTINUE

\* ------------------------------------------------------------------ tournament
Agents == 1 .. NumAgents

Seeds == 0 .. NumSeeds - 1

zero_matrix == [a \in Agents |-> [b \in Agents |-> 0]]

\* values of the locals before they exist
NoGame == [player_one_agent |-> AttackAgent, player_two_agent |-> AttackAgent]

NoState == [player_one_state |-> PlayerState(0, 0),
            player_two_state |-> PlayerState(0, 0),
            player_one_action |-> "NONE",
            player_two_action |-> "NONE"]

\* the GameState built for a match
new_state(max_hp) ==
    [player_one_state |-> PlayerState(max_hp, max_hp),
     player_two_state |-> PlayerState(max_hp, max_hp),
     player_one_action |-> "NONE",
     player_two_action |-> "NONE"]

\* record_outcome with every win counted in the cell of the pairing
record_outcome_one_cell(m, a1, a2, cond) ==
    IF cond.tag = "WIN"
    THEN [m EXCEPT ![a1][a2] = @ + 1]
    ELSE m

\* record_outcome that forgets the wins of player two
record_outcome_player_one_only(m, a1, a2, cond) ==
    IF cond.tag = "WIN" /\ cond.id = 1
    THEN [m EXCEPT ![a1][a2] = @ + 1]
    ELSE m

\* win_matrix after a match of pairing (a1, a2) that ended with cond
record_outcome(m, a1, a2, cond) ==
    IF cond.tag = "WIN"
    THEN IF cond.id = 1
         THEN [m EXCEPT ![a1][a2] = @ + 1]
         ELSE [m EXCEPT ![a2][a1] = @ + 1]
    ELSE m

\* csv_rows that writes the matrix as it lies in memory
csv_rows_as_stored(m) == [r \in Agents |-> [c \in Agents |-> m[r][c]]]

\* the rows of pitting-results.csv: row r, column c holds win_matrix[c][r]
csv_rows(m) == [r \in Agents |-> [c \in Agents |-> m[c][r]]]

\* the decimal digits, as the characters they are written with
Digits == <<"0", "1", "2", "3", "4", "5", "6", "7", "8", "9">>

\* write!(output, "{}", n): the characters of the decimal form of n
RECURSIVE format_integer(_)
format_integer(n) ==
    IF n < 0 THEN <<"-">> \o format_integer(-n)
    ELSE IF n < 10 THEN <<Digits[n + 1]>>
    ELSE format_integer(n \div 10) \o <<Digits[(n % 10) + 1]>>

\* the characters of one row: the first value, then "," and a value for each
\* further column, then the end of the line
RECURSIVE write_columns(_, _)
write_columns(row, j) ==
    IF j > Len(row) THEN <<"\n">>
    ELSE <<",">> \o format_integer(row[j]) \o write_columns(row, j + 1)

write_row(row) == format_integer(row[1]) \o write_columns(row, 2)

\* the characters of the whole file, rows r .. num_agents
RECURSIVE write_rows(_, _)
write_rows(rows, r) ==
    IF r > Len(rows) THEN <<>>
    ELSE write_row(rows[r]) \o write_rows(rows, r + 1)

csv_text(m) == write_rows(csv_rows(m), 1)

InitProbe ==
    /\ probe = AttackAgent
    /\ probe_seen = "NONE"
    /\ probe_before = AttackAgent
    /\ probe_action = "NONE"
    /\ probe_calls = 0

Init ==
    /\ list_of_agents \in [Agents -> Templates]
    /\ seed \in Seeds
    /\ rng = 0
    /\ win_matrix = zero_matrix
    /\ agent1 = 1
    /\ agent2 = 1
    /\ i = 0
    /\ game = NoGame
    /\ state = NoState
    /\ player_one_action = "NONE"
    /\ player_two_action = "NONE"
    /\ condition = CONTINUE
    /\ output = <<>>
    /\ pc = "start"
    /\ turn = 0
    /\ tie_count = zero_matrix
    /\ run = 1
    /\ first_matrix = zero_matrix
    /\ InitProbe

\* pit_agents_against_each_other up to the loops: the generator is seeded and
\* the matrix is zeroed
StartTournament ==
    /\ pc = "start"
    /\ rng' = seed_from_u64(seed)
    /\ win_matrix' = zero_matrix
    /\ tie_count' = zero_matrix
    /\ agent1' = 1
    /\ agent2' = 1
    /\ i' = 0
    /\ pc' = "new_game"
    /\ UNCHANGED <<list_of_agents, seed, game, state, player_one_action,
                   player_two_action, condition, output, turn, run, first_matrix>>
    /\ UNCHANGED probe_vars

\* NewGame that makes the clones once per pairing and keeps them for the
\* later trials
NewGame_keep_agents ==
    /\ pc = "new_game"
    /\ game' = IF i = 0
               THEN [player_one_agent |-> copy_self_to_anom(list_of_agents[agent1]),
                     player_two_agent |-> copy_self_to_anom(list_of_agents[agent2])]
               ELSE game
    /\ state' = new_state(MaxHp)
    /\ turn' = 0
    /\ pc' = "step"
    /\ UNCHANGED <<list_of_agents, seed, rng, win_matrix, agent1, agent2, i,
                   player_one_action, player_two_action, condition, output,
                   tie_count, run, first_matrix>>
    /\ UNCHANGED probe_vars

\* head of the innermost loop body: the two clones and the fresh GameState
NewGame ==
    /\ pc = "new_game"
    /\ game' = [player_one_agent |-> copy_self_to_anom(list_of_agents[agent1]),
                player_two_agent |-> copy_self_to_anom(list_of_agents[agent2])]
    /\ state' = new_state(MaxHp)
    /\ turn' = 0
    /\ pc' = "step"
    /\ UNCHANGED <<list_of_agents, seed, rng, win_matrix, agent1, agent2, i,
                   player_one_action, player_two_action, condition, output,
                   tie_count, run, first_matrix>>
    /\ UNCHANGED probe_vars

\* game.step_game(&mut state)
StepGame ==
    /\ pc = "step"
    /\ LET res == step_game(game, state, rng)
       IN  /\ game' = res.game
           /\ state' = res.state
           /\ rng' = res.rng
           /\ player_one_action' = res.player_one_action
           /\ player_two_action' = res.player_two_action
    /\ turn' = turn + 1
    /\ pc' = "check"
    /\ UNCHANGED <<list_of_agents, seed, win_matrix, agent1, agent2, i, condition,
                   output, tie_count, run, first_matrix>>
    /\ UNCHANGED probe_vars

\* the three for loops after a break: next trial, next agent2, next agent1
AdvanceLoops ==
    IF i + 1 < NumRetrials
    THEN /\ i' = i + 1
         /\ UNCHANGED <<agent1, agent2>>
         /\ pc' = "new_game"
    ELSE IF agent2 < NumAgents
    THEN /\ i' = 0
         /\ agent2' = agent2 + 1
         /\ UNCHANGED agent1
         /\ pc' = "new_game"
    ELSE IF agent1 < NumAgents
    THEN /\ i' = 0
         /\ agent2' = 1
         /\ agent1' = agent1 + 1
         /\ pc' = "new_game"
    ELSE /\ UNCHANGED <<agent1, agent2, i>>
         /\ pc' = "export"

\* check_end_condition and the match on its result
CheckEnd ==
    /\ pc = "check"
    /\ condition' = check_end_condition(state)
    /\ win_matrix' = record_outcome(win_matrix, agent1, agent2, condition')
    /\ tie_count' = IF condition'.tag = "TIE"
                    THEN [tie_count EXCEPT ![agent1][agent2] = @ + 1]
                    ELSE tie_count
    /\ IF condition'.tag \in {"WIN", "TIE"}
       THEN AdvanceLoops
       ELSE /\ pc' = "step"
            /\ UNCHANGED <<agent1, agent2, i>>
    /\ UNCHANGED <<list_of_agents, seed, rng, game, state, player_one_action,
                   player_two_action, output, turn, run, first_matrix>>
    /\ UNCHANGED probe_vars

\* the matrix is printed and written to pitting-results.csv
Export ==
    /\ pc = "export"
    /\ output' = csv_text(win_matrix)
    /\ pc' = "done"
    /\ UNCHANGED <<list_of_agents, seed, rng, win_matrix, agent1, agent2, i, game,
                   state, player_one_action, player_two_action, condition, turn,
                   tie_count, run, first_matrix>>
    /\ UNCHANGED probe_vars

Next ==
    \/ StartTournament
    \/ NewGame
    \/ StepGame
    \/ CheckEnd
    \/ Export

Spec == Init /\ [][Next]_vars

\* ------------------------------------------------------------------ second run
\* the program is run again: pit_agents_against_each_other starts over with the
\* same roster and the same seed; the matrix of the first run is kept aside
Rerun ==
    /\ pc = "done"
    /\ run = 1
    /\ first_matrix' = win_matrix
    /\ run' = 2
    /\ pc' = "start"
    /\ UNCHANGED <<list_of_agents, seed, rng, win_matrix, agent1, agent2, i, game,
                   state, player_one_action, player_two_action, condition, output,
                   turn, tie_count>>
    /\ UNCHANGED probe_vars

NextRepro ==
    \/ StartTournament
    \/ NewGame
    \/ StepGame
    \/ CheckEnd
    \/ Export
    \/ Rerun

SpecRepro == Init /\ [][NextRepro]_vars

\* ------------------------------------------------------------------ one agent
\* an agent of the roster kinds, freshly built, and a seeded generator
InitAgent ==
    /\ list_of_agents = [a \in Agents |-> AttackAgent]
    /\ seed \in Seeds
    /\ rng = seed_from_u64(seed)
    /\ win_matrix = zero_matrix
    /\ agent1 = 1
    /\ agent2 = 1
    /\ i = 0
    /\ game = NoGame
    /\ state = NoState
    /\ player_one_action = "NONE"
    /\ player_two_action = "NONE"
    /\ condition = CONTINUE
    /\ output = <<>>
    /\ pc = "agent"
    /\ turn = 0
    /\ tie_count = zero_matrix
    /\ run = 1
    /\ first_matrix = zero_matrix
    /\ probe \in Templates
    /\ probe_seen = "NONE"
    /\ probe_before = probe
    /\ probe_action = "NONE"
    /\ probe_calls = 0

\* one call of decide_action on the agent, with any opponent action
ProbeDecide ==
    /\ pc = "agent"
    /\ probe_calls < MaxCalls
    /\ \E seen \in OptionAction :
          LET res == decide_action(probe, seen, rng)
          IN  /\ probe' = res.agent
              /\ probe_action' = res.action
              /\ rng' = res.rng
              /\ probe_seen' = seen
    /\ probe_before' = probe
    /\ probe_calls' = probe_calls + 1
    /\ UNCHANGED <<list_of_agents, seed, win_matrix, agent1, agent2, i, game, state,
                   player_one_action, player_two_action, condition, output, pc, turn,
                   tie_count, run, first_matrix>>

NextAgent == ProbeDecide

SpecAgent == InitAgent /\ [][NextAgent]_vars

\* ------------------------------------------------------------------ properties
hp1 == state.player_one_state.current_hit_points

hp2 == state.player_two_state.current_hit_points

\* the match loop has just broken out (the locals still hold the last match)
MatchOver == pc \in {"new_game", "export", "done", "start"} /\ condition.tag \in {"WIN", "TIE"}

\* C1: every match stops: the turn loop never makes more than 2 * initial_hp - 1
\* calls of step_game, the loop continues while fewer than initial_hp calls were
\* made, and a match that is over took at least initial_hp calls.
C1_MatchTerminates ==
    /\ turn <= 2 * MaxHp - 1
    /\ (pc = "step" /\ turn > 0 => condition = CONTINUE)
    /\ (MatchOver => turn >= MaxHp /\ turn <= 2 * MaxHp - 1)

\* a match in which a side attacked took the longest possible number of turns
C1_Witness ==
    /\ MatchOver
    /\ turn = 2 * MaxHp - 1
    /\ "ATTACK" \in {player_one_action, player_two_action}

\* the HP changes of the table of C2 for the pair (one, two)
C2_Delta(one, two) ==
    CASE one = "ATTACK" /\ two = "ATTACK" -> <<-1, -1>>
      [] one = "ATTACK" /\ two = "FINCH" -> <<-1, 0>>
      [] one = "FINCH" /\ two = "ATTACK" -> <<0, -1>>
      [] one = "FINCH" /\ two = "FINCH" -> <<-1, -1>>

\* C2: a call of step_game changes the two HP by the entry of the payoff table
\* for the two committed actions and by nothing else, and leaves both
\* max_hit_points unchanged.
C2_PayoffTable ==
    [][pc = "step" =>
        /\ state'.player_one_state.current_hit_points
              = hp1 + C2_Delta(player_one_action', player_two_action')[1]
        /\ state'.player_two_state.current_hit_points
              = hp2 + C2_Delta(player_one_action', player_two_action')[2]
        /\ state'.player_one_state.max_hit_points = state.player_one_state.max_hit_points
        /\ state'.player_two_state.max_hit_points = state.player_two_state.max_hit_points
      ]_vars

\* a first turn of Counter against Attack: only player two lost HP
C2_Witness ==
    /\ pc = "check"
    /\ turn = 1
    /\ player_one_action = "FINCH"
    /\ player_two_action = "ATTACK"
    /\ hp1 = MaxHp
    /\ hp2 = MaxHp - 1

\* C3: check_end_condition answers TIE when both HP are <= 0, else WIN(2) when
\* player one's HP is <= 0, else WIN(1) when player two's HP is <= 0, else
\* CONTINUE; INTERRUPTED is never the outcome of a match.
C3_EndCondition ==
    /\ [](condition # INTERRUPTED)
    /\ [][pc = "check" =>
            /\ (hp1 <= 0 /\ hp2 <= 0 => condition' = TIE)
            /\ (hp1 <= 0 /\ hp2 > 0 => condition' = WIN(2))
            /\ (hp1 > 0 /\ hp2 <= 0 => condition' = WIN(1))
            /\ (hp1 > 0 /\ hp2 > 0 => condition' = CONTINUE)
         ]_vars

\* a match ended with both players at 0 and was reported as a tie
C3_Witness ==
    /\ MatchOver
    /\ hp1 <= 0
    /\ hp2 <= 0
    /\ condition = TIE

\* C4: the check that ends a match of pairing (agent1, agent2) adds 1 to
\* win_matrix[agent1][agent2] on WIN(1), 1 to win_matrix[agent2][agent1] on
\* WIN(2), nothing on TIE or CONTINUE, and leaves every other cell; no other
\* step of a match changes the matrix.
C4_MatrixUpdate ==
    [][/\ pc = "check" =>
            \A a, b \in Agents :
                win_matrix'[a][b] = win_matrix[a][b] +
                    (IF \/ (condition' = WIN(1) /\ a = agent1 /\ b = agent2)
                        \/ (condition' = WIN(2) /\ a = agent2 /\ b = agent1)
                     THEN 1 ELSE 0)
       /\ pc \in {"new_game", "step", "export"} => win_matrix' = win_matrix
      ]_vars

\* the first trial of pairing (1, 2) was won by player two: one win of agent
\* 2 over agent 1
C4_Witness ==
    /\ pc = "new_game"
    /\ agent1 = 1
    /\ agent2 = 2
    /\ i = 1
    /\ condition = WIN(2)
    /\ win_matrix[2][1] = win_matrix[1][2] + 1

\* tied matches between agents a and b, in both seatings
C5_Ties(a, b) == IF a = b THEN tie_count[a][a] ELSE tie_count[a][b] + tie_count[b][a]

\* C5 as stated: after the tournament, wins of a over b plus wins of b over a
\* plus their tied matches are trials_per_pairing, for every a and b.
C5_ConservationAsStated ==
    pc = "done" =>
        \A a, b \in Agents :
            win_matrix[a][b] + win_matrix[b][a] + C5_Ties(a, b) = NumRetrials

\* C5, amended: after the tournament, for two different agents a and b the cells
\* win_matrix[a][b] and win_matrix[b][a] plus the ties of both seatings add up
\* to 2 * trials_per_pairing (the pairings (a, b) and (b, a) both feed the two
\* cells); for a paired with itself win_matrix[a][a] plus the ties is
\* trials_per_pairing.
C5_Conservation ==
    pc = "done" =>
        \A a, b \in Agents :
            /\ a # b => win_matrix[a][b] + win_matrix[b][a] + C5_Ties(a, b)
                            = 2 * NumRetrials
            /\ a = b => win_matrix[a][a] + C5_Ties(a, a) = NumRetrials

\* a finished tournament with wins in both directions, a tie between the two
\* agents and a win in a self pairing
C5_Witness ==
    /\ pc = "done"
    /\ win_matrix[1][2] > 0
    /\ win_matrix[2][1] > 0
    /\ C5_Ties(1, 2) > 0
    /\ win_matrix[1][1] > 0

\* the estimator counters of an agent (0 for the agents without counters)
C6_Turns(agent) ==
    IF agent.kind = "OneStepDecisionProcessAgent" THEN agent.num_turns ELSE 0

\* C6: every match starts with both HP at initial_hp, no recorded action and
\* each side's agent equal to its roster template; the templates never change;
\* starting a match leaves the generator as the earlier matches left it; and a
\* side's estimator counts the turns of the running match only, also when both
\* sides are clones of one template.
C6_PerTrialReset ==
    /\ [](pc = "step" /\ turn = 0 =>
            /\ state = [player_one_state |-> PlayerState(MaxHp, MaxHp),
                        player_two_state |-> PlayerState(MaxHp, MaxHp),
                        player_one_action |-> "NONE",
                        player_two_action |-> "NONE"]
            /\ game.player_one_agent = list_of_agents[agent1]
            /\ game.player_two_agent = list_of_agents[agent2])
    /\ [](pc \in {"step", "check"} =>
            /\ C6_Turns(game.player_one_agent) = C6_Turns(list_of_agents[agent1]) + turn
               \/ game.player_one_agent.kind # "OneStepDecisionProcessAgent"
            /\ C6_Turns(game.player_two_agent) = C6_Turns(list_of_agents[agent2]) + turn
               \/ game.player_two_agent.kind # "OneStepDecisionProcessAgent")
    /\ [][list_of_agents' = list_of_agents]_vars
    /\ [][pc = "new_game" => rng' = rng]_vars

\* a later trial of a self pairing of a Markov agent starts afresh, after a
\* trial that moved the generator
C6_Witness ==
    /\ pc = "step"
    /\ turn = 0
    /\ i >= 1
    /\ agent1 = agent2
    /\ list_of_agents[agent1].kind = "MarkovRandomAgent"
    /\ rng # seed_from_u64(seed)

\* C7: a second run of the tournament with the same roster, trials, HP and seed
\* ends with the win matrix of the first run.
C7_Reproducible ==
    run = 2 /\ pc = "done" => win_matrix = first_matrix

\* a second run ended, of a roster with an agent that draws, and somebody won
C7_Witness ==
    /\ run = 2
    /\ pc = "done"
    /\ \E a \in Agents : list_of_agents[a].kind \in {"RandomAgent", "MarkovRandomAgent"}
    /\ win_matrix # zero_matrix
    /\ rng # seed_from_u64(seed)

\* C8: after every turn the GameState holds the actions the two agents
\* committed on that turn, and it holds none before the first turn.
C8_LastActionsStored ==
    /\ (pc = "step" /\ turn = 0) =>
            state.player_one_action = "NONE" /\ state.player_two_action = "NONE"
    /\ (pc \in {"step", "check"} /\ turn >= 1) =>
            /\ state.player_one_action = player_one_action
            /\ state.player_two_action = player_two_action

\* C9: in a match, a Mirror agent commits ATTACK on the first turn and on every
\* later turn the action its opponent committed on the turn before.
C9_MirrorFollows ==
    [][pc = "step" =>
        /\ game.player_one_agent.kind = "MirrorAgent" =>
              player_one_action' = IF turn = 0 THEN "ATTACK" ELSE player_two_action
        /\ game.player_two_agent.kind = "MirrorAgent" =>
              player_two_action' = IF turn = 0 THEN "ATTACK" ELSE player_one_action
      ]_vars

\* C10: a call of the estimator's decide_action adds exactly 1 to num_turns and
\* adds 1 to num_attacks exactly when the observed action is ATTACK; after any
\* call num_turns >= 1 and 0 <= num_attacks <= num_turns, and after a first
\* call that observed nothing num_attacks is 0 (the estimate is 0 / 1).
C10_EstimatorCounts ==
    /\ [][probe_calls' = probe_calls + 1
            /\ probe.kind = "OneStepDecisionProcessAgent" =>
                /\ probe'.num_turns = probe.num_turns + 1
                /\ probe'.num_attacks
                      = probe.num_attacks + (IF probe_seen' = "ATTACK" THEN 1 ELSE 0)
         ]_vars
    /\ [](probe.kind = "OneStepDecisionProcessAgent" /\ probe_calls >= 1 =>
            /\ probe.num_turns >= 1
            /\ probe.num_turns = probe_calls
            /\ 0 <= probe.num_attacks
            /\ probe.num_attacks <= probe.num_turns
            /\ (probe_calls = 1 /\ probe_seen = "NONE" => probe.num_attacks = 0))

\* an estimator that was called several times and saw both an attack and
\* something else
C10_Witness ==
    /\ probe.kind = "OneStepDecisionProcessAgent"
    /\ probe_calls >= 3
    /\ probe.num_attacks >= 1
    /\ probe.num_attacks < probe.num_turns
    /\ probe_seen = "FINCH"

C12_Other(a) == IF a = "ATTACK" THEN "FINCH" ELSE "ATTACK"

\* C12: a call of the Markov agent's decide_action leaves ATTACK for FINCH when
\* the draw is below change_to_finch_prob, leaves FINCH for ATTACK when the draw
\* is below change_to_attack_prob, stays otherwise, and returns the strategy
\* after the update; the agent with change_to_attack_prob = 0 and
\* change_to_finch_prob = 1 started in ATTACK returns FINCH at every call.
C12_MarkovTransitions ==
    /\ [][probe_calls' = probe_calls + 1 /\ probe.kind = "MarkovRandomAgent" =>
            LET p == IF probe.current_strategy = "ATTACK"
                     THEN probe.change_to_finch_prob
                     ELSE probe.change_to_attack_prob
                switch == sample(rng') < p
            IN  /\ probe'.current_strategy =
                      (IF switch THEN C12_Other(probe.current_strategy)
                       ELSE probe.current_strategy)
                /\ probe_action' = probe'.current_strategy
                /\ probe'.change_to_attack_prob = probe.change_to_attack_prob
                /\ probe'.change_to_finch_prob = probe.change_to_finch_prob
         ]_vars
    /\ [](/\ probe.kind = "MarkovRandomAgent"
          /\ probe.change_to_attack_prob = 0
          /\ probe.change_to_finch_prob = ProbScale
          /\ probe_calls >= 1
          => probe_action = "FINCH" /\ probe.current_strategy = "FINCH")

\* the agent with probabilities (0, 1) was called several times and counters
C12_Witness ==
    /\ probe.kind = "MarkovRandomAgent"
    /\ probe.change_to_attack_prob = 0
    /\ probe.change_to_finch_prob = ProbScale
    /\ probe_calls >= 3
    /\ probe_before.current_strategy = "FINCH"
    /\ probe_action = "FINCH"

\* the action Always-Attack commits when handed what the agent was handed
C13_AttackAction(seen) == AttackAgent_decide_action(AttackAgent, seen, rng).action

\* C13: in every turn of every trial a Random agent with probability 1 commits
\* the action Always-Attack commits (ATTACK), keeps no state, and loses 1 HP
\* while its opponent loses 1 HP exactly when it attacked too: the game states
\* are those of Always-Attack in the same seat against the same actions.
C13_RandomOneIsAttack ==
    /\ [][pc = "step" =>
            /\ game.player_one_agent = RandomAgent(ProbScale) =>
                  /\ player_one_action' = C13_AttackAction(state.player_two_action)
                  /\ player_one_action' = "ATTACK"
                  /\ game'.player_one_agent = game.player_one_agent
                  /\ state'.player_one_state.current_hit_points = hp1 - 1
                  /\ state'.player_two_state.current_hit_points =
                        hp2 - (IF player_two_action' = "ATTACK" THEN 1 ELSE 0)
            /\ game.player_two_agent = RandomAgent(ProbScale) =>
                  /\ player_two_action' = C13_AttackAction(state.player_one_action)
                  /\ player_two_action' = "ATTACK"
                  /\ game'.player_two_agent = game.player_two_agent
                  /\ state'.player_two_state.current_hit_points = hp2 - 1
                  /\ state'.player_one_state.current_hit_points =
                        hp1 - (IF player_one_action' = "ATTACK" THEN 1 ELSE 0)
         ]_vars
    /\ [](pc = "check" /\ game.player_one_agent = RandomAgent(ProbScale)
            => hp1 = MaxHp - turn)
    /\ [](pc = "check" /\ game.player_two_agent = RandomAgent(ProbScale)
            => hp2 = MaxHp - turn)

\* the last turn of a later trial of a Random agent with probability 1 against
\* an agent that draws and countered
C13_Witness ==
    /\ pc = "check"
    /\ i >= 1
    /\ turn = MaxHp
    /\ game.player_one_agent = RandomAgent(ProbScale)
    /\ game.player_two_agent.kind \in {"RandomAgent", "MarkovRandomAgent"}
    /\ player_one_action = "ATTACK"
    /\ player_two_action = "FINCH"
    /\ hp1 = 0

\* C14: in a match of Always-Attack against Always-Attack both players lose
\* exactly 1 HP on every turn, their HP are equal throughout, and the match
\* ends in TIE after exactly initial_hp turns, never in a WIN.
C14_AttackersTie ==
    /\ [](/\ pc \in {"step", "check"}
          /\ game.player_one_agent = AttackAgent
          /\ game.player_two_agent = AttackAgent
          => hp1 = hp2 /\ hp1 = MaxHp - turn /\ turn <= MaxHp)
    /\ [][/\ pc = "check"
          /\ game.player_one_agent = AttackAgent
          /\ game.player_two_agent = AttackAgent
          => /\ condition'.tag # "WIN"
             /\ condition' = TIE <=> turn = MaxHp
             /\ condition' = CONTINUE <=> turn < MaxHp
         ]_vars

\* a match of two Always-Attack agents is over: a tie at 0 : 0
C14_Witness ==
    /\ MatchOver
    /\ game.player_one_agent = AttackAgent
    /\ game.player_two_agent = AttackAgent
    /\ turn = MaxHp
    /\ condition = TIE
    /\ hp1 = 0
    /\ hp2 = 0

\* a match of Mirror against Always-Attack, in either seat
C15_MirrorVsAttack ==
    \/ game.player_one_agent = MirrorAgent /\ game.player_two_agent = AttackAgent
    \/ game.player_one_agent = AttackAgent /\ game.player_two_agent = MirrorAgent

\* C15: in a match of Mirror against Always-Attack, in either seat, both sides
\* commit ATTACK on every turn, and the match ends in TIE, never in a WIN.
C15_MirrorAttackTie ==
    /\ [][pc = "step" /\ C15_MirrorVsAttack =>
            player_one_action' = "ATTACK" /\ player_two_action' = "ATTACK"]_vars
    /\ [][pc = "check" /\ C15_MirrorVsAttack =>
            /\ condition'.tag # "WIN"
            /\ condition' = TIE <=> turn = MaxHp
         ]_vars

\* a match with Mirror in seat two against Always-Attack is over: a tie
C15_Witness ==
    /\ MatchOver
    /\ game.player_one_agent = AttackAgent
    /\ game.player_two_agent = MirrorAgent
    /\ turn = MaxHp
    /\ condition = TIE
    /\ player_two_action = "ATTACK"

\* C16: during a match current_hit_points <= max_hit_points = initial_hp for
\* both players; a turn never raises a player's HP; and the end check, the
\* matrix update and the export leave the GameState as it is.
C16_PlayerState ==
    /\ [](pc \in {"step", "check"} =>
            /\ state.player_one_state.max_hit_points = MaxHp
            /\ state.player_two_state.max_hit_points = MaxHp
            /\ hp1 <= state.player_one_state.max_hit_points
            /\ hp2 <= state.player_two_state.max_hit_points)
    /\ [][pc = "step" =>
            /\ state'.player_one_state.current_hit_points <= hp1
            /\ state'.player_two_state.current_hit_points <= hp2]_vars
    /\ [][(pc \in {"check", "export", "start"}) => state' = state]_vars

\* two turns into a match one player is untouched and the other lost HP twice
C16_Witness ==
    /\ pc = "check"
    /\ turn = 2
    /\ hp2 = MaxHp
    /\ hp1 = MaxHp - 2

\* the pieces of text between the occurrences of sep, from position k on, cur
\* being the piece read so far
RECURSIVE C17_Split(_, _, _, _)
C17_Split(text, sep, k, cur) ==
    IF k > Len(text) THEN <<cur>>
    ELSE IF text[k] = sep THEN <<cur>> \o C17_Split(text, sep, k + 1, <<>>)
    ELSE C17_Split(text, sep, k + 1, Append(cur, text[k]))

\* the lines of a text in which every line is ended by "\n"
C17_Lines(text) ==
    LET pieces == C17_Split(text, "\n", 1, <<>>)
    IN  SubSeq(pieces, 1, Len(pieces) - 1)

C17_DigitValue(ch) == CHOOSE d \in 0 .. 9 : Digits[d + 1] = ch

\* the number a sequence of digits stands for
RECURSIVE C17_Value(_)
C17_Value(field) ==
    IF Len(field) = 0 THEN 0
    ELSE 10 * C17_Value(SubSeq(field, 1, Len(field) - 1))
            + C17_DigitValue(field[Len(field)])

C17_IsNumber(field) ==
    /\ Len(field) >= 1
    /\ \A k \in 1 .. Len(field) : \E d \in 1 .. 10 : Digits[d] = field[k]

\* C17: the exported file ends every line with a line end and has exactly one
\* line per agent and no header; every line has one field per agent; every
\* field is a non-negative decimal number; and the field at row r, column c
\* is win_matrix[c][r], the wins of agent c over agent r.
C17_ExportTransposed ==
    pc = "done" =>
        LET lines == C17_Lines(output)
        IN  /\ Len(output) > 0
            /\ output[Len(output)] = "\n"
            /\ Len(lines) = NumAgents
            /\ \A r \in Agents :
                  LET fields == C17_Split(lines[r], ",", 1, <<>>)
                  IN  /\ Len(fields) = NumAgents
                      /\ \A c \in Agents :
                            /\ C17_IsNumber(fields[c])
                            /\ C17_Value(fields[c]) = win_matrix[c][r]
                            /\ C17_Value(fields[c]) >= 0

\* the file of a tournament in which agent 1 beat agent 2 more often than
\* agent 2 beat agent 1
C17_Witness ==
    /\ pc = "done"
    /\ win_matrix[1][2] > win_matrix[2][1]
    /\ win_matrix[2][1] > 0
    /\ Len(output) >= 2 * NumAgents * NumAgents

\* C18: every turn lowers the sum of the two HP by 1 or by 2, whatever the two
\* actions are, so no turn is without damage; a turn of two counters costs
\* each side 1 HP; and a match of two agents that always counter ends in TIE
\* after exactly initial_hp turns.
C18_NoZeroDamage ==
    /\ [][pc = "step" =>
            /\ (hp1 + hp2) - (state'.player_one_state.current_hit_points
                                + state'.player_two_state.current_hit_points)
                  \in {1, 2}
            /\ player_one_action' = "FINCH" /\ player_two_action' = "FINCH" =>
                  /\ state'.player_one_state.current_hit_points = hp1 - 1
                  /\ state'.player_two_state.current_hit_points = hp2 - 1
         ]_vars
    /\ [][/\ pc = "check"
          /\ game.player_one_agent = RandomAgent(0)
          /\ game.player_two_agent = RandomAgent(0)
          => /\ condition' = TIE <=> turn = MaxHp
             /\ condition' = CONTINUE <=> turn < MaxHp
         ]_vars

\* a match of two agents that never attack is over: a tie after initial_hp
\* turns of two counters
C18_Witness ==
    /\ MatchOver
    /\ game.player_one_agent = RandomAgent(0)
    /\ game.player_two_agent = RandomAgent(0)
    /\ player_one_action = "FINCH"
    /\ player_two_action = "FINCH"
    /\ turn = MaxHp
    /\ condition = TIE

\* the action a Mirror agent commits when the GameState holds seen
C19_Mirrored(seen) == IF seen = "NONE" THEN "ATTACK" ELSE seen

\* the action a Random agent commits on the draw made from generator state r
C19_Drawn(agent, r) ==
    IF sample(r) < agent.probability_of_attack THEN "ATTACK" ELSE "FINCH"

\* C19: in one call of step_game each agent decides exactly once (an
\* estimator's num_turns grows by 1); a decision sees the GameState of before
\* the turn, not the other side's action of this turn (a Mirror agent commits
\* what the state held before the turn); and of two Random agents player one
\* gets the first draw of the turn and player two the second.
C19_DecisionOrder ==
    [][pc = "step" =>
        /\ game.player_one_agent.kind = "OneStepDecisionProcessAgent" =>
              game'.player_one_agent.num_turns = game.player_one_agent.num_turns + 1
        /\ game.player_two_agent.kind = "OneStepDecisionProcessAgent" =>
              game'.player_two_agent.num_turns = game.player_two_agent.num_turns + 1
        /\ game.player_one_agent.kind = "MirrorAgent" =>
              player_one_action' = C19_Mirrored(state.player_two_action)
        /\ game.player_two_agent.kind = "MirrorAgent" =>
              player_two_action' = C19_Mirrored(state.player_one_action)
        /\ /\ game.player_one_agent.kind = "RandomAgent"
           /\ game.player_two_agent.kind = "RandomAgent"
           /\ game.player_one_agent.probability_of_attack < ProbScale
           /\ game.player_two_agent.probability_of_attack < ProbScale
           => /\ player_one_action' = C19_Drawn(game.player_one_agent, next_state(rng))
              /\ player_two_action' =
                    C19_Drawn(game.player_two_agent, next_state(next_state(rng)))
              /\ rng' = next_state(next_state(rng))
      ]_vars

\* a turn in which Mirror in seat two attacked although player one countered
\* in that turn
C19_Witness ==
    /\ pc = "check"
    /\ game.player_two_agent = MirrorAgent
    /\ player_one_action = "FINCH"
    /\ player_two_action = "ATTACK"

\* the agents of the roster that commit FINCH whatever they are handed
C20_AlwaysCounters(agent) == agent = RandomAgent(0)

\* C20: HP never goes below 0; and against a player that counters on every
\* turn the opponent loses exactly 1 HP per turn, never has more HP than the
\* countering player, and the match ends after exactly initial_hp turns in a
\* tie or a win of the countering player.
C20_CounterNeverLoses ==
    /\ [](hp1 >= 0 /\ hp2 >= 0)
    /\ [](pc \in {"step", "check"} /\ C20_AlwaysCounters(game.player_one_agent)
            => hp2 = MaxHp - turn /\ hp1 >= hp2)
    /\ [](pc \in {"step", "check"} /\ C20_AlwaysCounters(game.player_two_agent)
            => hp1 = MaxHp - turn /\ hp2 >= hp1)
    /\ [][pc = "check" /\ C20_AlwaysCounters(game.player_one_agent) =>
            /\ condition' \in {WIN(1), TIE, CONTINUE}
            /\ condition' = CONTINUE <=> turn < MaxHp]_vars
    /\ [][pc = "check" /\ C20_AlwaysCounters(game.player_two_agent) =>
            /\ condition' \in {WIN(2), TIE, CONTINUE}
            /\ condition' = CONTINUE <=> turn < MaxHp]_vars

\* the countering player in seat one won untouched against an opponent that
\* attacked on every turn
C20_Witness ==
    /\ MatchOver
    /\ C20_AlwaysCounters(game.player_one_agent)
    /\ condition = WIN(1)
    /\ turn = MaxHp
    /\ hp1 = MaxHp
    /\ hp2 = 0

====
